---- MODULE Spec2Model ----
(***************************************************************************)
(* DocBot (src/app.py, src/utils/loader.py): a Streamlit script that is    *)
(* run top to bottom once per user interaction.  The state that survives   *)
(* between runs is st.session_state (chat_history, query_engine,           *)
(* uploaded_filenames), the contents of the file_uploader widget, the      *)
(* "data" folder on disk, and the wall clock.                              *)
(***************************************************************************)
EXTENDS Integers, Sequences, FiniteSets, TLC

VARIABLES
    files,          \* files[s]: what st.file_uploader returns in session s
    session_state,  \* session_state[s]: st.session_state of session s
    data,           \* the "data" folder: stored name -> stored file
    now,            \* wall clock, in seconds
    out             \* what the last script run did (widgets shown, calls made)

vars == <<files, session_state, data, now, out>>

----------------------------------------------------------------------------
(* Bounds of the model *)

MaxFiles == 2       \* files held by one file_uploader widget
MaxChat == 4        \* an ask is submitted only while the transcript is shorter
MaxTicks == 1       \* seconds the clock may advance in one exploration

StartTime == 86399  \* the clock when the exploration starts: 23:59:59

(* Program constants *)

DaySeconds == 86400 \* strftime("%H:%M:%S") keeps the time of day only

----------------------------------------------------------------------------
(* Inputs *)

\* A file name is <<stem, extension>>; the uploader accepts pdf, docx, txt.
Names == {<<"a", ".txt">>, <<"b", ".pdf">>}

\* File contents: bytes the readers can decode, and bytes they cannot
\* (non-UTF-8 text, malformed PDF).
Readable == {"v1"}
Contents == Readable \cup {"bad"}

Files == [name : Names, bytes : Contents]

\* A string is the sequence of its characters.
Questions == {<<"q", "1">>}
Answers == {<<"r", "1">>}

\* Seconds one query call may take.
Elapsed == {0, 1}

Ext(name) == name[2]

Range(q) == {q[i] : i \in 1..Len(q)}

RemoveAt(q, i) == SubSeq(q, 1, i - 1) \o SubSeq(q, i + 1, Len(q))

\* All orderings of a finite set, as sequences without repetition.
Orderings(S) ==
    {q \in [1..Cardinality(S) -> S] : \A i, j \in 1..Cardinality(S) : q[i] = q[j] => i = j}

----------------------------------------------------------------------------
(* utils/loader.py *)

\* PyMuPDFReader().load / DocxReader().load: the documents of one file, or a
\* failure on bytes the reader cannot parse.
ReaderLoad(name, file) ==
    IF file.bytes \in Readable
    THEN [raised |-> FALSE,
          documents |-> <<[src |-> name, text |-> file.bytes, by |-> file.by]>>]
    ELSE [raised |-> TRUE, documents |-> <<>>]

\* open(path, 'r', encoding='utf-8').read() wrapped as one Document, or a
\* UnicodeDecodeError.
ReadText(name, file) ==
    IF file.bytes \in Readable
    THEN [raised |-> FALSE,
          documents |-> <<[src |-> name, text |-> file.bytes, by |-> file.by]>>]
    ELSE [raised |-> TRUE, documents |-> <<>>]

\* Mutant of LoadEntry: the .docx branch is missing, so a .docx entry is
\* skipped like an unknown extension.
LoadEntryNoDocx(folder, name) ==
    IF Ext(name) = ".pdf" THEN ReaderLoad(name, folder[name])
    ELSE IF Ext(name) = ".txt" THEN ReadText(name, folder[name])
    ELSE [raised |-> FALSE, documents |-> <<>>]

\* One iteration of the loop over os.listdir(folder_path).
LoadEntry(folder, name) ==
    IF Ext(name) = ".pdf" THEN ReaderLoad(name, folder[name])
    ELSE IF Ext(name) = ".docx" THEN ReaderLoad(name, folder[name])
    ELSE IF Ext(name) = ".txt" THEN ReadText(name, folder[name])
    ELSE [raised |-> FALSE, documents |-> <<>>]

\* load_all_documents(folder_path), with `listing` the result of os.listdir:
\* the documents of every entry in listing order; the first entry that fails
\* aborts the whole load.
RECURSIVE LoadFrom(_, _, _)
LoadFrom(folder, listing, documents) ==
    IF listing = <<>> THEN [raised |-> FALSE, documents |-> documents]
    ELSE LET r == LoadEntry(folder, Head(listing))
         IN  IF r.raised THEN [raised |-> TRUE, documents |-> <<>>]
             ELSE LoadFrom(folder, Tail(listing), documents \o r.documents)

load_all_documents(folder, listing) == LoadFrom(folder, listing, <<>>)

----------------------------------------------------------------------------
(* app.py: values *)

\* st.session_state.query_engine = None
None == [built |-> FALSE, docs |-> {}]

\* VectorStoreIndex.from_documents(documents).as_query_engine()
QueryEngine(documents) == [built |-> TRUE, docs |-> Range(documents)]

\* datetime.now().strftime("%H:%M:%S"): the second of the day
Strftime(t) == t % DaySeconds

\* Session State Initialization (first run of a session)
InitSessionState ==
    [chat_history |-> <<>>, query_engine |-> None, uploaded_filenames |-> <<>>]

\* What a script run that shows nothing and calls nothing leaves in `out`:
\* the session and the user action (sess, op); the warning of line 55
\* (changed), the success banner of line 62 (success), the warning of line
\* 110 (refused); the query call made, if any (queried, prompt, engine,
\* response); where the run raised (raised); the download offered and its
\* text (download, body); whether
\* st.rerun() ran the script again (reran); whether a non-empty transcript
\* was emptied (cleared).
Quiet(s, op) ==
    [sess |-> s, op |-> op, changed |-> FALSE, success |-> FALSE,
     refused |-> FALSE, queried |-> FALSE, prompt |-> <<>>, engine |-> None,
     response |-> <<>>, raised |-> "", download |-> "", body |-> <<>>,
     reran |-> FALSE, cleared |-> FALSE]

\* The user actions a script run can be answering.
NoEvent ==
    [rebuild |-> FALSE, reset |-> FALSE, prompt |-> <<>>, export |-> "",
     listing |-> <<>>, buildOk |-> TRUE, queryOk |-> TRUE, answer |-> <<>>,
     elapsed |-> 0]

----------------------------------------------------------------------------
(* app.py: the sidebar *)

\* Mutant of WriteFile: a name already stored is left as it is.
WriteFileIfAbsent(folder, file, s) ==
    [n \in DOMAIN folder \cup {file.name} |->
        IF n \in DOMAIN folder THEN folder[n] ELSE [bytes |-> file.bytes, by |-> s]]

\* with open(os.path.join("data", file.name), "wb") as f: f.write(file.read())
\* file.read() yields the file's bytes in every run.  `by` records which
\* session wrote the stored bytes.
WriteFile(folder, file, s) ==
    [n \in DOMAIN folder \cup {file.name} |->
        IF n = file.name THEN [bytes |-> file.bytes, by |-> s] ELSE folder[n]]

\* for file in files: ... write (lines 45-49)
RECURSIVE WriteUploads(_, _, _)
WriteUploads(folder, fs, s) ==
    IF fs = <<>> THEN folder
    ELSE WriteUploads(WriteFile(folder, Head(fs), s), Tail(fs), s)

\* new_files: the names of the selection, in the selection's order
NewFiles(fs) == [i \in 1..Len(fs) |-> fs[i].name]

\* Mutant of FilesChanged: every run with a selection counts as a change.
FilesChangedAlways(new_files, uploaded_filenames) == TRUE

\* new_files != st.session_state.uploaded_filenames (two Python lists)
FilesChanged(new_files, uploaded_filenames) == new_files # uploaded_filenames

\* Mutant of UploadHandler: the engine survives a changed selection.
UploadHandlerKeepsEngine(ss, fs) ==
    IF NewFiles(fs) # ss.uploaded_filenames
    THEN [uploaded_filenames |-> NewFiles(fs),
          chat_history |-> <<>>,
          query_engine |-> ss.query_engine]
    ELSE ss

\* lines 51-55: record the selection, clear the chat, drop the engine
UploadHandler(ss, fs) ==
    IF FilesChanged(NewFiles(fs), ss.uploaded_filenames)
    THEN [uploaded_filenames |-> NewFiles(fs),
          chat_history |-> <<>>,
          query_engine |-> None]
    ELSE ss

\* Mutant of RebuildIndex: a failed build still installs an (empty) engine.
RebuildIndexEager(ss, folder, ev) ==
    LET loaded == load_all_documents(folder, ev.listing)
    IN  IF loaded.raised \/ ~ev.buildOk
        THEN [ss |-> [ss EXCEPT !.query_engine = QueryEngine(<<>>)],
              raised |-> IF loaded.raised THEN "load" ELSE "build",
              success |-> FALSE]
        ELSE [ss |-> [ss EXCEPT !.query_engine = QueryEngine(loaded.documents)],
              raised |-> "", success |-> TRUE]

\* lines 57-62, the Rebuild Index button pressed: the engine is assigned only
\* when load_all_documents and VectorStoreIndex.from_documents both return.
RebuildIndex(ss, folder, ev) ==
    LET loaded == load_all_documents(folder, ev.listing)
    IN  IF loaded.raised THEN [ss |-> ss, raised |-> "load", success |-> FALSE]
        ELSE IF ~ev.buildOk THEN [ss |-> ss, raised |-> "build", success |-> FALSE]
        ELSE [ss |-> [ss EXCEPT !.query_engine = QueryEngine(loaded.documents)],
              raised |-> "", success |-> TRUE]

\* Mutant of ResetHandler: the transcript is cut back to its first message.
ResetHandlerKeepsFirst(ss) ==
    [chat_history |-> IF ss.chat_history = <<>> THEN <<>>
                      ELSE <<ss.chat_history[1]>>,
     query_engine |-> None,
     uploaded_filenames |-> <<>>]

\* Mutant of ResetHandler: the engine survives the reset.
ResetHandlerKeepsEngine(ss) ==
    [chat_history |-> <<>>, query_engine |-> ss.query_engine,
     uploaded_filenames |-> <<>>]

\* lines 64-67, the Clear All & Reset button pressed
ResetHandler(ss) ==
    [chat_history |-> <<>>, query_engine |-> None, uploaded_filenames |-> <<>>]

\* lines 38-68.  The result says whether the run raised or asked for a rerun.
Sidebar(ss, folder, fs, s, ev) ==
    LET folder1 == IF fs # <<>> THEN WriteUploads(folder, fs, s) ELSE folder
        ss1 == IF fs # <<>> THEN UploadHandler(ss, fs) ELSE ss
        built == IF fs # <<>> /\ ev.rebuild
                 THEN RebuildIndex(ss1, folder1, ev)
                 ELSE [ss |-> ss1, raised |-> "", success |-> FALSE]
    IN  [ss |-> IF built.raised = "" /\ ev.reset THEN ResetHandler(built.ss)
                ELSE built.ss,
         data |-> folder1,
         changed |-> fs # <<>> /\ FilesChanged(NewFiles(fs), ss.uploaded_filenames),
         success |-> built.success,
         raised |-> built.raised,
         rerun |-> built.raised = "" /\ ev.reset]

----------------------------------------------------------------------------
(* app.py: the tabs *)

Message(role, content, time) == [role |-> role, content |-> content, time |-> time]

\* The role the answer is recorded under (line 103)
BotRole == "DocBot"

\* Mutant of EngineReady: the chat input is handled whether or not an engine
\* exists.
EngineReadyAlways(ss) == TRUE

\* if st.session_state.query_engine: (line 87)
EngineReady(ss) == ss.query_engine.built

\* lines 90-95: the message recorded for the prompt
UserMessage(ev, t) == Message("user", ev.prompt, Strftime(t))

\* Mutant of BotMessage: the prompt is recorded in place of the response.
BotMessageEcho(ev, t) == Message(BotRole, ev.prompt, Strftime(t))

\* lines 101-106: the message recorded for the response
BotMessage(ev, t) == Message(BotRole, ev.answer, Strftime(t))

\* lines 87-110.  `t` is the clock when the prompt is handled; the query call
\* takes ev.elapsed seconds.
ChatTab(ss, ev, t) ==
    IF EngineReady(ss)
    THEN IF ev.prompt # <<>>
         THEN LET asked == Append(ss.chat_history, UserMessage(ev, t))
              IN  IF ev.queryOk
                  THEN [ss |-> [ss EXCEPT !.chat_history =
                                   Append(asked, BotMessage(ev, t + ev.elapsed))],
                        queried |-> TRUE, response |-> ev.answer,
                        refused |-> FALSE, raised |-> "", now |-> t + ev.elapsed]
                  ELSE [ss |-> [ss EXCEPT !.chat_history = asked],
                        queried |-> TRUE, response |-> <<>>,
                        refused |-> FALSE, raised |-> "query", now |-> t + ev.elapsed]
         ELSE [ss |-> ss, queried |-> FALSE, response |-> <<>>,
               refused |-> FALSE, raised |-> "", now |-> t]
    ELSE [ss |-> ss, queried |-> FALSE, response |-> <<>>,
          refused |-> TRUE, raised |-> "", now |-> t]

\* lines 149-166: fitz.open on every recorded .pdf; a malformed one raises.
PreviewRaises(ss, folder) ==
    \E i \in 1..Len(ss.uploaded_filenames) :
        /\ Ext(ss.uploaded_filenames[i]) = ".pdf"
        /\ folder[ss.uploaded_filenames[i]].bytes \notin Readable

\* lines 169-183: the name of the download offered, if any
SettingsTab(ss, ev) ==
    IF ev.export # "" /\ ss.chat_history # <<>> THEN ev.export ELSE ""

----------------------------------------------------------------------------
(* app.py: the JSON export.  A text is the sequence of its characters; a    *)
(* character outside ASCII is written by its code point, "U+00E9".          *)

Digits == <<"0", "1", "2", "3", "4", "5", "6", "7", "8", "9">>

TwoDigits(n) == <<Digits[(n \div 10) + 1], Digits[(n % 10) + 1]>>

\* strftime("%H:%M:%S") (lines 90, 101): the text of a second of the day
TimeText(t) ==
    TwoDigits(t \div 3600) \o <<":">> \o TwoDigits((t \div 60) % 60) \o <<":">>
        \o TwoDigits(t % 60)

\* The string literals of lines 91-105, spelled out
Chars(str) ==
    CASE str = "user" -> <<"u", "s", "e", "r">>
      [] str = "DocBot" -> <<"D", "o", "c", "B", "o", "t">>
      [] str = "role" -> <<"r", "o", "l", "e">>
      [] str = "content" -> <<"c", "o", "n", "t", "e", "n", "t">>
      [] str = "time" -> <<"t", "i", "m", "e">>

NonAscii == {"U+00E9"}

\* The four hexadecimal digits json writes after \u
Hex(c) == CASE c = "U+00E9" -> <<"0", "0", "e", "9">>

\* Mutant of EscapeChar: every character is written as it is.
EscapeCharRaw(c) == <<c>>

\* json.dumps, ensure_ascii left at its default (line 172): one character of
\* a string
EscapeChar(c) ==
    CASE c = "\"" -> <<"\\", "\"">>
      [] c = "\\" -> <<"\\", "\\">>
      [] c = "\n" -> <<"\\", "n">>
      [] c \in NonAscii -> <<"\\", "u">> \o Hex(c)
      [] OTHER -> <<c>>

RECURSIVE EscapeAll(_)
EscapeAll(text) ==
    IF text = <<>> THEN <<>> ELSE EscapeChar(Head(text)) \o EscapeAll(Tail(text))

JsonString(text) == <<"\"">> \o EscapeAll(text) \o <<"\"">>

Indent(n) == [i \in 1..n |-> " "]

\* The members of one message, in the order the dict was built (lines 91-95,
\* 102-106)
Members(m) ==
    << <<Chars("role"), Chars(m.role)>>,
       <<Chars("content"), m.content>>,
       <<Chars("time"), TimeText(m.time)>> >>

\* json.dumps(..., indent=2): one "key": "value" line at depth 2
JsonMember(pair, last) ==
    Indent(4) \o JsonString(pair[1]) \o <<":", " ">> \o JsonString(pair[2])
        \o (IF last THEN <<>> ELSE <<",">>) \o <<"\n">>

RECURSIVE JsonMembers(_)
JsonMembers(pairs) ==
    IF pairs = <<>> THEN <<>>
    ELSE JsonMember(Head(pairs), Len(pairs) = 1) \o JsonMembers(Tail(pairs))

\* json.dumps(..., indent=2): one object at depth 1
JsonObject(m, last) ==
    Indent(2) \o <<"{", "\n">> \o JsonMembers(Members(m)) \o Indent(2) \o <<"}">>
        \o (IF last THEN <<>> ELSE <<",">>) \o <<"\n">>

RECURSIVE JsonObjects(_)
JsonObjects(chat) ==
    IF chat = <<>> THEN <<>>
    ELSE JsonObject(Head(chat), Len(chat) = 1) \o JsonObjects(Tail(chat))

\* chat_json = json.dumps(st.session_state.chat_history, indent=2) (line 172)
json_dumps(chat) ==
    IF chat = <<>> THEN <<"[", "]">>
    ELSE <<"[", "\n">> \o JsonObjects(chat) \o <<"]">>

\* lines 170-175: the text of the download offered, if it is chat_history.json
SettingsBody(ss, download) ==
    IF download = "chat_history.json" THEN json_dumps(ss.chat_history) ELSE <<>>

----------------------------------------------------------------------------
(* app.py: one run of the script *)

\* One pass over the script, top to bottom, in session s with the uploader
\* holding fs: the sidebar, then (unless the sidebar raised or called
\* st.rerun) the Chat, Docs Preview and Settings tabs.
Pass(ss, folder, t, fs, s, ev, op) ==
    LET sb == Sidebar(ss, folder, fs, s, ev)
        base == [Quiet(s, op) EXCEPT !.changed = sb.changed,
                                     !.success = sb.success,
                                     !.raised = sb.raised]
    IN  IF sb.raised # "" \/ sb.rerun
        THEN [ss |-> sb.ss, data |-> sb.data, now |-> t, rerun |-> sb.rerun,
              out |-> base]
        ELSE LET chat == ChatTab(sb.ss, ev, t)
                 preview == chat.raised = "" /\ PreviewRaises(chat.ss, sb.data)
             IN  [ss |-> chat.ss, data |-> sb.data, now |-> chat.now,
                  rerun |-> FALSE,
                  out |-> [base EXCEPT
                      !.refused = chat.refused,
                      !.queried = chat.queried,
                      !.prompt = IF chat.queried THEN ev.prompt ELSE <<>>,
                      !.engine = IF chat.queried THEN sb.ss.query_engine ELSE None,
                      !.response = chat.response,
                      !.raised = IF chat.raised # "" THEN chat.raised
                                 ELSE IF preview THEN "preview" ELSE "",
                      !.download = IF chat.raised = "" /\ ~preview
                                   THEN SettingsTab(chat.ss, ev) ELSE ""]]

\* What a finished run leaves in `out`, given the transcript it started with.
Finished(r, before, reran) ==
    [r.out EXCEPT !.body = SettingsBody(r.ss, r.out.download),
                  !.reran = reran,
                  !.cleared = before # <<>> /\ r.ss.chat_history = <<>>]

\* The run a user action triggers in session s, the uploader holding fs.
\* st.rerun() (line 68) abandons the pass and runs the script once more, with
\* no button pressed and the uploader as it is.
Run(s, fs, ev, op) ==
    \E p \in {Pass(session_state[s], data, now, fs, s, ev, op)} :
    \E r \in {IF p.rerun THEN Pass(p.ss, p.data, p.now, fs, s, NoEvent, op) ELSE p} :
        /\ files' = [files EXCEPT ![s] = fs]
        /\ session_state' = [session_state EXCEPT ![s] = r.ss]
        /\ data' = r.data
        /\ now' = r.now
        /\ out' = Finished(r, session_state[s].chat_history, p.rerun)

----------------------------------------------------------------------------
(* The user's actions *)

\* The user adds a file to the uploader.
UploaderAdd(s, f) ==
    /\ Len(files[s]) < MaxFiles
    /\ Run(s, Append(files[s], f), NoEvent, "upload")

\* The user removes the i-th file from the uploader.
UploaderRemove(s, i) ==
    /\ i \in 1..Len(files[s])
    /\ Run(s, RemoveAt(files[s], i), NoEvent, "upload")

\* The user presses Rebuild Index (shown only while the uploader holds files).
ClickRebuild(s, buildOk) ==
    /\ files[s] # <<>>
    /\ \E listing \in Orderings(DOMAIN WriteUploads(data, files[s], s)) :
          Run(s, files[s],
              [NoEvent EXCEPT !.rebuild = TRUE, !.listing = listing,
                              !.buildOk = buildOk],
              "rebuild")

\* The user presses Clear All & Reset.
ClickReset(s) ==
    Run(s, files[s], [NoEvent EXCEPT !.reset = TRUE], "reset")

\* The user submits question q; the query call takes `elapsed` seconds and
\* returns `answer` or fails.
Ask(s, q, queryOk, answer, elapsed) ==
    /\ Len(session_state[s].chat_history) + 2 <= MaxChat
    /\ now + elapsed <= StartTime + MaxTicks
    /\ Run(s, files[s],
           [NoEvent EXCEPT !.prompt = q, !.queryOk = queryOk,
                           !.answer = answer, !.elapsed = elapsed],
           "ask")

\* The user presses one of the Export Chat History buttons.
Export(s, kind) ==
    Run(s, files[s], [NoEvent EXCEPT !.export = kind], "export")

----------------------------------------------------------------------------
(* One session *)

Init ==
    /\ files = [s \in {1} |-> <<>>]
    /\ session_state = [s \in {1} |-> InitSessionState]
    /\ data = <<>>
    /\ now = StartTime
    /\ out = Quiet(1, "init")

Next ==
    \/ \E s \in DOMAIN files, f \in Files : UploaderAdd(s, f)
    \/ \E s \in DOMAIN files, i \in 1..MaxFiles : UploaderRemove(s, i)
    \/ \E s \in DOMAIN files, buildOk \in BOOLEAN : ClickRebuild(s, buildOk)
    \/ \E s \in DOMAIN files : ClickReset(s)
    \/ \E s \in DOMAIN files, q \in Questions, queryOk \in BOOLEAN,
          answer \in Answers, elapsed \in Elapsed :
            Ask(s, q, queryOk, answer, elapsed)
    \/ \E s \in DOMAIN files, kind \in {"chat_history.json", "chat_history.txt"} :
            Export(s, kind)

Spec == Init /\ [][Next]_vars

----------------------------------------------------------------------------
(* Two sessions over the one "data" folder.  The inputs are narrowed to what *)
(* the sharing of the folder needs: readable files, one question, queries   *)
(* that succeed at once, a transcript of one exchange.                      *)

SharedFiles == {f \in Files : f.bytes \in Readable}

InitShared ==
    /\ files = [s \in {1, 2} |-> <<>>]
    /\ session_state = [s \in {1, 2} |-> InitSessionState]
    /\ data = <<>>
    /\ now = StartTime
    /\ out = Quiet(1, "init")

NextShared ==
    \/ \E s \in DOMAIN files, f \in SharedFiles : UploaderAdd(s, f)
    \/ \E s \in DOMAIN files, i \in 1..MaxFiles : UploaderRemove(s, i)
    \/ \E s \in DOMAIN files : ClickRebuild(s, TRUE)
    \/ \E s \in DOMAIN files : ClickReset(s)
    \/ \E s \in DOMAIN files :
          /\ session_state[s].chat_history = <<>>
          /\ Ask(s, <<"q", "1">>, TRUE, <<"r", "1">>, 0)

SpecShared == InitShared /\ [][NextShared]_vars

----------------------------------------------------------------------------
(* The session state machine, as the properties below read it *)

Sessions == DOMAIN files

Chat(s) == session_state[s].chat_history
Engine(s) == session_state[s].query_engine
Recorded(s) == session_state[s].uploaded_filenames

\* The state of session s that a step leaves behind
ChatAfter(s) == session_state'[s].chat_history
EngineAfter(s) == session_state'[s].query_engine

\* The step is a script run of session s answering the user action op.
RunOf(s, op) == out'.sess = s /\ out'.op = op /\ vars' # vars

IsPrefix(p, q) == Len(p) <= Len(q) /\ SubSeq(q, 1, Len(p)) = p

----------------------------------------------------------------------------
(* C1: an ask in a state with no index leaves the transcript as it was and  *)
(* makes no query call; a query call is made only on a built engine.        *)

C1_AskWithoutIndexIsNoOp ==
    [][\A s \in Sessions :
          /\ (RunOf(s, "ask") /\ ~Engine(s).built)
                => (ChatAfter(s) = Chat(s) /\ ~out'.queried /\ out'.refused)
          /\ (out'.sess = s /\ out'.queried)
                => (Engine(s).built /\ out'.engine.built)]_vars

\* An ask was refused in FilesUploadedUnindexed.
C1_Witness ==
    /\ out.op = "ask" /\ out.refused /\ ~out.queried
    /\ Recorded(out.sess) # <<>> /\ ~Engine(out.sess).built

----------------------------------------------------------------------------
(* C2 as stated: every upload whose set of file names differs from the      *)
(* recorded set leaves the transcript empty and the index null.             *)

C2_ChangedSetClears ==
    [][\A s \in Sessions :
          (RunOf(s, "upload") /\ Range(NewFiles(files'[s])) # Range(Recorded(s)))
             => (ChatAfter(s) = <<>> /\ ~EngineAfter(s).built)]_vars

(* C2 as amended: an upload with a non-empty selection whose set of file    *)
(* names differs from the recorded set leaves the transcript empty and the  *)
(* index null; from then on the engine comes back only through a Rebuild    *)
(* Index run that succeeded, and until it does no ask appends a message or  *)
(* makes a query call.  An upload that leaves the selection empty changes   *)
(* nothing in the session.                                                  *)

C2_ChangedSelectionClears ==
    [][\A s \in Sessions :
          /\ (/\ RunOf(s, "upload")
              /\ files'[s] # <<>>
              /\ Range(NewFiles(files'[s])) # Range(Recorded(s)))
                => (ChatAfter(s) = <<>> /\ ~EngineAfter(s).built)
          /\ (RunOf(s, "upload") /\ files'[s] = <<>>)
                => session_state'[s] = session_state[s]
          /\ (~Engine(s).built /\ EngineAfter(s).built)
                => (RunOf(s, "rebuild") /\ out'.success)
          /\ (~Engine(s).built /\ ~RunOf(s, "rebuild"))
                => (ChatAfter(s) = <<>> /\ ~(out'.sess = s /\ out'.queried))]_vars

\* A changed, non-empty selection emptied a transcript.
C2_Witness ==
    /\ out.op = "upload" /\ out.changed /\ out.cleared
    /\ files[out.sess] # <<>>
    /\ Chat(out.sess) = <<>> /\ ~Engine(out.sess).built

----------------------------------------------------------------------------
(* C3 as stated: an upload whose set of file names equals the recorded set  *)
(* does not clear the transcript and does not invalidate a built engine.    *)

C3_SameSetIsNoOp ==
    [][\A s \in Sessions :
          (RunOf(s, "upload") /\ Range(NewFiles(files'[s])) = Range(Recorded(s)))
             => (ChatAfter(s) = Chat(s) /\ EngineAfter(s) = Engine(s))]_vars

(* C3 as amended: an upload whose list of file names equals the recorded    *)
(* list (the same names, as often, in the same order) changes nothing in    *)
(* the session: the transcript, a built engine and the recorded list are    *)
(* kept.                                                                    *)

C3_SameListIsNoOp ==
    [][\A s \in Sessions :
          (RunOf(s, "upload") /\ NewFiles(files'[s]) = Recorded(s))
             => session_state'[s] = session_state[s]]_vars

\* The recorded list was uploaded again in Ready, after an exchange.
C3_Witness ==
    /\ out.op = "upload" /\ ~out.changed
    /\ files[out.sess] # <<>> /\ NewFiles(files[out.sess]) = Recorded(out.sess)
    /\ Engine(out.sess).built /\ Chat(out.sess) # <<>>

----------------------------------------------------------------------------
(* C4 as stated (its part on roles): every message of the transcript has    *)
(* role user or assistant.                                                  *)

C4_RolesUserAssistant ==
    \A s \in Sessions : \A i \in 1..Len(Chat(s)) :
        Chat(s)[i].role \in {"user", "assistant"}

(* C4 as amended: every ask whose query call returns extends the transcript *)
(* by exactly two messages, first role user with the question, then role    *)
(* DocBot with the answer the query returned; every message has role user   *)
(* or DocBot.                                                               *)

C4_AskAppendsPair ==
    [][\A s \in Sessions :
          /\ (RunOf(s, "ask") /\ out'.queried /\ out'.raised # "query")
                => /\ Len(ChatAfter(s)) = Len(Chat(s)) + 2
                   /\ IsPrefix(Chat(s), ChatAfter(s))
                   /\ ChatAfter(s)[Len(Chat(s)) + 1].role = "user"
                   /\ ChatAfter(s)[Len(Chat(s)) + 1].content = out'.prompt
                   /\ ChatAfter(s)[Len(Chat(s)) + 2].role = "DocBot"
                   /\ ChatAfter(s)[Len(Chat(s)) + 2].content = out'.response
          /\ \A i \in 1..Len(ChatAfter(s)) :
                ChatAfter(s)[i].role \in {"user", "DocBot"}]_vars

\* A second exchange was appended to a first.
C4_Witness ==
    /\ out.op = "ask" /\ out.queried /\ out.raised # "query"
    /\ Len(Chat(out.sess)) = 4
    /\ Chat(out.sess)[4].content = out.response

----------------------------------------------------------------------------
(* C5: after Clear All & Reset the session is in NoFiles: nothing recorded  *)
(* as uploaded, an empty transcript, no engine.                             *)

C5_ResetYieldsNoFiles ==
    out.op = "reset"
        => /\ Recorded(out.sess) = <<>>
           /\ Chat(out.sess) = <<>>
           /\ ~Engine(out.sess).built

----------------------------------------------------------------------------
(* C6: whenever a query call is made, the engine queried was built from     *)
(* exactly the documents of the files recorded as uploaded, as stored now.  *)

DocumentsOf(names) ==
    {[src |-> n, text |-> data[n].bytes, by |-> data[n].by] : n \in names}

C6_NoStaleQuery ==
    out.queried => out.engine.docs = DocumentsOf(Range(Recorded(out.sess)))

----------------------------------------------------------------------------
(* C7: an ask whose query call fails leaves the session as it was:          *)
(* transcript, engine and recorded files.                                   *)

C7_FailedAskAppendsNothing ==
    [][\A s \in Sessions :
          (RunOf(s, "ask") /\ out'.raised = "query")
             => session_state'[s] = session_state[s]]_vars

----------------------------------------------------------------------------
(* C8: a Rebuild Index run in which loading the documents or building the   *)
(* index fails leaves the session as it was (from FilesUploadedUnindexed:   *)
(* still no engine, the next ask refused), and the success banner is shown  *)
(* only with an engine in place.                                            *)

C8_FailedRebuildKeepsState ==
    [][\A s \in Sessions :
          /\ (RunOf(s, "rebuild") /\ out'.raised \in {"load", "build"})
                => (session_state'[s] = session_state[s] /\ ~out'.success)
          /\ (out'.sess = s /\ out'.success) => EngineAfter(s).built]_vars

\* Loading failed in FilesUploadedUnindexed, on a stored .txt that does not
\* decode.
C8_Witness ==
    /\ out.op = "rebuild" /\ out.raised = "load"
    /\ Recorded(out.sess) # <<>> /\ ~Engine(out.sess).built
    /\ \E n \in DOMAIN data : Ext(n) = ".txt" /\ data[n].bytes \notin Readable

----------------------------------------------------------------------------
(* C9 as stated: an ask only extends the transcript; the transcript is      *)
(* emptied only by reset or by an upload whose set of file names differs    *)
(* from the recorded set; nothing else changes it.                          *)

C9_ClearedOnlyOnSetChange ==
    [][\A s \in Sessions :
          \/ ChatAfter(s) = Chat(s)
          \/ RunOf(s, "ask") /\ IsPrefix(Chat(s), ChatAfter(s))
          \/ ChatAfter(s) = <<>> /\ RunOf(s, "reset")
          \/ /\ ChatAfter(s) = <<>> /\ RunOf(s, "upload")
             /\ Range(NewFiles(files'[s])) # Range(Recorded(s))]_vars

(* C9 as amended: an ask only extends the transcript, every earlier message *)
(* kept in place; the transcript is emptied only by reset or by an upload   *)
(* whose list of file names differs from the recorded list; Rebuild Index,  *)
(* an upload of the recorded list and export leave it unchanged.            *)

C9_AppendOnlyBetweenClears ==
    [][\A s \in Sessions :
          \/ ChatAfter(s) = Chat(s)
          \/ RunOf(s, "ask") /\ IsPrefix(Chat(s), ChatAfter(s))
          \/ ChatAfter(s) = <<>> /\ RunOf(s, "reset")
          \/ /\ ChatAfter(s) = <<>> /\ RunOf(s, "upload")
             /\ NewFiles(files'[s]) # Recorded(s)]_vars

\* A transcript holding earlier messages was extended.
C9_Witness ==
    /\ out.op = "ask" /\ out.queried
    /\ Len(Chat(out.sess)) >= 3

----------------------------------------------------------------------------
(* C10: the engine of a session holds only documents of files that session  *)
(* stored.                                                                  *)

C10_IndexConfined ==
    \A s \in Sessions : \A d \in Engine(s).docs : d.by = s

----------------------------------------------------------------------------
(* load_all_documents on its own: the folder is any folder over the names   *)
(* below, whatever put the files there, and each step is one call.          *)

\* Entries of the folder: the three extensions the loader knows, one it does
\* not, and an upper-case .TXT, which endswith(".txt") does not match.
FolderNames ==
    Names \cup {<<"c", ".docx">>, <<"d", ".md">>, <<"e", ".TXT">>}

\* Every folder holding some of these entries, each with readable or
\* undecodable bytes.
Folders ==
    UNION {[S -> [bytes : Contents, by : {1}]] : S \in SUBSET FolderNames}

InitLoader ==
    /\ files = [s \in {1} |-> <<>>]
    /\ session_state = [s \in {1} |-> InitSessionState]
    /\ data \in Folders
    /\ now = StartTime
    /\ out = [op |-> "init", listing |-> <<>>, raised |-> FALSE, documents |-> <<>>]

\* One call load_all_documents("data"), os.listdir giving the entries in
\* some order.
LoadCall(listing) ==
    \E r \in {load_all_documents(data, listing)} :
        /\ out' = [op |-> "load", listing |-> listing, raised |-> r.raised,
                   documents |-> r.documents]
        /\ UNCHANGED <<files, session_state, data, now>>

NextLoader == \E listing \in Orderings(DOMAIN data) : LoadCall(listing)

SpecLoader == InitLoader /\ [][NextLoader]_vars

\* The extensions load_all_documents dispatches on
Recognized(name) == Ext(name) \in {".pdf", ".docx", ".txt"}

----------------------------------------------------------------------------
(* C11: a call of load_all_documents that returns gives, in listing order,  *)
(* exactly one document for each entry ending in .txt, .pdf or .docx,       *)
(* holding that entry's stored content, and nothing for any other entry;    *)
(* the call raises only when an entry with one of the three extensions      *)
(* cannot be read, never because of an entry with another extension.        *)

C11_LoadDispatchesByExtension ==
    out.op = "load" =>
        LET entries == SelectSeq(out.listing, Recognized)
        IN  /\ out.raised <=>
                  \E n \in DOMAIN data : Recognized(n) /\ data[n].bytes \notin Readable
            /\ ~out.raised =>
                  /\ Len(out.documents) = Len(entries)
                  /\ \A i \in 1..Len(entries) :
                        /\ out.documents[i].src = entries[i]
                        /\ out.documents[i].text = data[entries[i]].bytes

\* A call returned on a folder holding all three known extensions next to
\* entries with other extensions, one of them undecodable.
C11_Witness ==
    /\ out.op = "load" /\ ~out.raised
    /\ Len(out.documents) = 3
    /\ <<"d", ".md">> \in DOMAIN data /\ data[<<"d", ".md">>].bytes = "bad"
    /\ <<"e", ".TXT">> \in DOMAIN data


----------------------------------------------------------------------------
(* Reading the exported text back: json.loads over the characters.  A parse *)
(* result is [ok, value, pos], pos the index after what was read.           *)

ParseFail == [ok |-> FALSE, value |-> <<>>, pos |-> 0]

RECURSIVE SkipWs(_, _)
SkipWs(txt, i) ==
    IF i <= Len(txt) /\ txt[i] \in {" ", "\n"} THEN SkipWs(txt, i + 1) ELSE i

\* The characters of a string up to its closing quote; a raw control
\* character is refused.
RECURSIVE ParseChars(_, _, _)
ParseChars(txt, i, acc) ==
    IF i > Len(txt) THEN ParseFail
    ELSE IF txt[i] = "\"" THEN [ok |-> TRUE, value |-> acc, pos |-> i + 1]
    ELSE IF txt[i] = "\n" THEN ParseFail
    ELSE IF txt[i] # "\\" THEN ParseChars(txt, i + 1, Append(acc, txt[i]))
    ELSE IF i + 1 > Len(txt) THEN ParseFail
    ELSE IF txt[i + 1] \in {"\"", "\\", "/"}
         THEN ParseChars(txt, i + 2, Append(acc, txt[i + 1]))
    ELSE IF txt[i + 1] = "n" THEN ParseChars(txt, i + 2, Append(acc, "\n"))
    ELSE IF /\ txt[i + 1] = "u"
            /\ i + 5 <= Len(txt)
            /\ \E c \in NonAscii : Hex(c) = SubSeq(txt, i + 2, i + 5)
         THEN ParseChars(txt, i + 6,
                  Append(acc, CHOOSE c \in NonAscii :
                                  Hex(c) = SubSeq(txt, i + 2, i + 5)))
    ELSE ParseFail

ParseString(txt, i) ==
    IF i <= Len(txt) /\ txt[i] = "\"" THEN ParseChars(txt, i + 1, <<>>)
    ELSE ParseFail

\* "key": "value" pairs up to the closing brace
RECURSIVE ParseMembers(_, _, _)
ParseMembers(txt, i, acc) ==
    LET key == ParseString(txt, i)
        colon == SkipWs(txt, key.pos)
        val == ParseString(txt, SkipWs(txt, colon + 1))
        sep == SkipWs(txt, val.pos)
    IN  IF ~key.ok \/ colon > Len(txt) THEN ParseFail
        ELSE IF txt[colon] # ":" \/ ~val.ok \/ sep > Len(txt) THEN ParseFail
        ELSE IF txt[sep] = ","
             THEN ParseMembers(txt, SkipWs(txt, sep + 1),
                               Append(acc, <<key.value, val.value>>))
        ELSE IF txt[sep] = "}"
             THEN [ok |-> TRUE, value |-> Append(acc, <<key.value, val.value>>),
                   pos |-> sep + 1]
        ELSE ParseFail

ParseObject(txt, i) ==
    IF i > Len(txt) \/ txt[i] # "{" THEN ParseFail
    ELSE LET j == SkipWs(txt, i + 1)
         IN  IF j <= Len(txt) /\ txt[j] = "}"
             THEN [ok |-> TRUE, value |-> <<>>, pos |-> j + 1]
             ELSE ParseMembers(txt, j, <<>>)

\* Objects up to the closing bracket
RECURSIVE ParseElements(_, _, _)
ParseElements(txt, i, acc) ==
    LET obj == ParseObject(txt, i)
        sep == SkipWs(txt, obj.pos)
    IN  IF ~obj.ok \/ sep > Len(txt) THEN ParseFail
        ELSE IF txt[sep] = ","
             THEN ParseElements(txt, SkipWs(txt, sep + 1), Append(acc, obj.value))
        ELSE IF txt[sep] = "]"
             THEN [ok |-> TRUE, value |-> Append(acc, obj.value), pos |-> sep + 1]
        ELSE ParseFail

ParseArray(txt, i) ==
    IF i > Len(txt) \/ txt[i] # "[" THEN ParseFail
    ELSE LET j == SkipWs(txt, i + 1)
         IN  IF j <= Len(txt) /\ txt[j] = "]"
             THEN [ok |-> TRUE, value |-> <<>>, pos |-> j + 1]
             ELSE ParseElements(txt, j, <<>>)

\* json.loads of an array of objects with string members
json_loads(txt) ==
    LET arr == ParseArray(txt, SkipWs(txt, 1))
    IN  IF arr.ok /\ SkipWs(txt, arr.pos) = Len(txt) + 1 THEN arr ELSE ParseFail

\* A parsed object as a dict: its key/value pairs, no key twice
IsDict(pairs) ==
    \A i, j \in 1..Len(pairs) : pairs[i][1] = pairs[j][1] => i = j

----------------------------------------------------------------------------
(* One session whose questions and answers carry the characters json has to *)
(* escape.  One readable file, builds that succeed, a transcript of at most *)
(* three messages.                                                          *)

ExportTexts ==
    {<<"q", "1">>, <<"\"">>, <<"\\", "n">>, <<"\n", "}">>, <<"U+00E9", ",">>}

ExportFile == [name |-> <<"a", ".txt">>, bytes |-> "v1"]

NextExport ==
    \/ \E s \in DOMAIN files : UploaderAdd(s, ExportFile)
    \/ \E s \in DOMAIN files, i \in 1..MaxFiles : UploaderRemove(s, i)
    \/ \E s \in DOMAIN files : ClickRebuild(s, TRUE)
    \/ \E s \in DOMAIN files : ClickReset(s)
    \/ \E s \in DOMAIN files, q \in ExportTexts, queryOk \in BOOLEAN,
          answer \in ExportTexts, elapsed \in Elapsed :
            /\ Len(session_state[s].chat_history) <= 1
            /\ Ask(s, q, queryOk, answer, elapsed)
    \/ \E s \in DOMAIN files : Export(s, "chat_history.json")

SpecExport == Init /\ [][NextExport]_vars

\* C12: whenever a run offers chat_history.json, parsing the offered text
\* yields one object per message of the session's transcript, in order, each
\* with exactly the members role, content and time holding that message's
\* strings.
C12_JsonRoundTrip ==
    out.download = "chat_history.json" =>
        LET chat == session_state[out.sess].chat_history
            parsed == json_loads(out.body)
        IN  /\ parsed.ok
            /\ Len(parsed.value) = Len(chat)
            /\ \A i \in 1..Len(chat) :
                  /\ IsDict(parsed.value[i])
                  /\ Range(parsed.value[i]) = Range(Members(chat[i]))

C12_Witness ==
    /\ out.download = "chat_history.json"
    /\ LET chat == session_state[out.sess].chat_history
       IN  /\ Len(chat) >= 3
           /\ \E i, j, k \in 1..Len(chat) :
                 /\ chat[i].content = <<"\"">>
                 /\ chat[j].content = <<"\\", "n">>
                 /\ chat[k].content = <<"U+00E9", ",">>


----------------------------------------------------------------------------
(* C13: for every ask whose query call returns, the time recorded on the    *)
(* user message and the time recorded on the answer both lie between the    *)
(* clock reading when the ask started and the reading when it completed,    *)
(* and the user message's time does not exceed the answer's, all compared   *)
(* as recorded (hour, minute and second of the day).                        *)

C13_TimesWithinAsk ==
    [][\A s \in Sessions :
          (RunOf(s, "ask") /\ out'.queried /\ out'.raised # "query")
             => LET user_time == ChatAfter(s)[Len(Chat(s)) + 1].time
                    DocBot_time == ChatAfter(s)[Len(Chat(s)) + 2].time
                IN  /\ Strftime(now) <= user_time
                    /\ user_time <= DocBot_time
                    /\ DocBot_time <= Strftime(now')]_vars


----------------------------------------------------------------------------
(* C14: every run whose selection is non-empty leaves, under each selected  *)
(* name, the bytes of the selected file of that name (of the last one, when *)
(* the selection holds the name twice), written by that session, whether or *)
(* not the list of names changed and whatever else the run does; every      *)
(* stored file not named in the selection is as it was, and none appears or *)
(* disappears.  A run that finds the recorded names selected again, with    *)
(* other content, keeps the engine and the transcript.                      *)

SelectedNames(fs) == Range(NewFiles(fs))

\* The selected file that is written last under name n
LastSelected(fs, n) ==
    fs[CHOOSE i \in 1..Len(fs) :
          /\ fs[i].name = n
          /\ \A j \in (i + 1)..Len(fs) : fs[j].name # n]

C14_UploadWritesSelection ==
    [][\A s \in Sessions :
          (out'.sess = s /\ files'[s] # <<>>)
             => /\ DOMAIN data' = DOMAIN data \cup SelectedNames(files'[s])
                /\ \A n \in SelectedNames(files'[s]) :
                      data'[n] = [bytes |-> LastSelected(files'[s], n).bytes,
                                  by |-> s]
                /\ \A n \in DOMAIN data \ SelectedNames(files'[s]) :
                      data'[n] = data[n]
                /\ (out'.op = "upload" /\ NewFiles(files'[s]) = Recorded(s))
                      => ChatAfter(s) = Chat(s) /\ EngineAfter(s) = Engine(s)]_vars

\* The recorded name was selected again with other bytes: the folder holds the
\* new bytes, the engine still holds the document read from the old ones, and
\* the transcript is kept.
C14_Witness ==
    /\ out.op = "upload" /\ ~out.changed
    /\ files[out.sess] = <<[name |-> <<"a", ".txt">>, bytes |-> "bad"]>>
    /\ data[<<"a", ".txt">>].bytes = "bad"
    /\ Engine(out.sess).built
    /\ \E d \in Engine(out.sess).docs : d.src = <<"a", ".txt">> /\ d.text = "v1"
    /\ Chat(out.sess) # <<>>


----------------------------------------------------------------------------
(* C15: in every reachable state each session is in NoFiles, in             *)
(* FilesUploadedUnindexed or in Ready, never with an engine and no recorded *)
(* file; Rebuild Index cannot be pressed in NoFiles; and the transcript is  *)
(* non-empty only in Ready.                                                 *)

NoFiles(s) == Recorded(s) = <<>> /\ ~Engine(s).built
FilesUploadedUnindexed(s) == Recorded(s) # <<>> /\ ~Engine(s).built
Ready(s) == Recorded(s) # <<>> /\ Engine(s).built

C15_SessionStates ==
    \A s \in Sessions :
        /\ NoFiles(s) \/ FilesUploadedUnindexed(s) \/ Ready(s)
        /\ NoFiles(s) => ~ENABLED (\E buildOk \in BOOLEAN : ClickRebuild(s, buildOk))
        /\ Chat(s) # <<>> => Ready(s)

\* A session that has been reset out of Ready with a transcript, the uploader
\* empty: NoFiles, and Rebuild Index cannot be pressed.
C15_Witness ==
    /\ out.op = "reset" /\ out.cleared
    /\ NoFiles(out.sess)
    /\ files[out.sess] = <<>>
    /\ data # <<>>

====
